---- MODULE Spec2Model ----
(***************************************************************************)
(* A model of liegr.py: the so(n) generator basis and structure constants  *)
(* built by liegr.__init__, the co-occurrence statistics of                *)
(* liegr.build_cooccur, the Cayley update of OrthoOptimizer and the        *)
(* training loop of liegr.make_embeddings.                                 *)
(*                                                                         *)
(* Each part of the program has its own specification over its own         *)
(* variables; the variables of the other parts stay at their idle values.  *)
(***************************************************************************)
EXTENDS Integers, Sequences, FiniteSets, TLC

VARIABLES
    \* liegr.__init__ : generators and structure constants
    n,          \* self.n, the constructor's argument
    N,          \* self.N
    T,          \* self.T[I][i][j], I in 0..N-1, i and j in 0..n-1
    gamma,      \* self.gamma[I][J][K]; <<>> before line 73
    I,          \* the loop variable I of lines 61 and 74
    J,          \* the loop variable J of line 75
    pc,         \* position in __init__ : "gen", "gamma", "done", or "idle"
    \* liegr.build_vocab and liegr.build_cooccur
    corpora,        \* the documents, each the token sequence to_tokens gives
    window_size,    \* the argument window_size
    freq_threshold, \* self.freq_threshold
    word_id,        \* self.word_id : vocabulary word -> 0..vocab_size-1
    windows,        \* the list windows of line 146
    widx,           \* how many windows the loop of line 154 has processed
    occur,          \* self.occur[i]
    cooccur,        \* self.cooccur[i][j]
    index_pairs,    \* self.index_pairs, a sequence of pairs <<i, j>>
    p,              \* self.p, a sequence of quotients (see Similarity)
    cpc,            \* position : "vocab", "tabulate", "done", or "idle"
    \* OrthoOptimizer on the embedding table
    dim,        \* the side of the matrices, v.shape[1]
    lr,         \* self._lr, a quotient [num, den]
    table,      \* the variable v : row id -> matrix [num, den] (num/den)
    indices,    \* g.indices of the step under way or last applied
    values,     \* g.values of the step under way : integer matrices
    mod,        \* get_grads' first result, one matrix per batch entry
    var,        \* get_grads' second result, the gathered rows
    step,       \* the number of minimize steps applied
    opc,        \* position : "get" (before get_grads), "apply", or "idle"
    \* liegr.make_embeddings : the training loop
    num_pairs,      \* len(self.p)
    tot_batches,    \* tot_batches of line 269
    qhead,          \* the constraint the queue serves next, 0..num_pairs-1
    version,        \* the embedding table's contents: k stands for the table
                    \* as it stood right after the k-th training step of the
                    \* run, 0 for the untrained initial table
    best_var,       \* best_var : the contents (a version) it holds
    loss_list,      \* loss_list, losses in thousandths
    new_loss,       \* new_loss times tot_batches * batch_size
    old_loss,       \* old_loss, likewise
    best_loss,      \* best_loss, likewise
    consec_worse,   \* consec_worse
    iterator,       \* the index next(iterator) gives next
    grp_matrix,     \* self.grp_matrix : the version exposed, -1 before
    measured,       \* every average loss measured with the version it was
                    \* measured on (lines 339 and 348)
    trained,        \* the constraints (positions in self.p) that the batch
                    \* of some sess.run(train) so far contained
    tpc             \* position : "initial", "continual", "restore", "done"

basisVars == <<n, N, T, gamma, I, J, pc>>

cooccurVars == <<corpora, window_size, freq_threshold, word_id, windows, widx,
                 occur, cooccur, index_pairs, p, cpc>>

optVars == <<dim, lr, table, indices, values, mod, var, step, opc>>

trainVars == <<num_pairs, tot_batches, qhead, version, best_var, loss_list,
               new_loss, old_loss, best_loss, consec_worse, iterator,
               grp_matrix, measured, trained, tpc>>

vars == <<basisVars, cooccurVars, optVars, trainVars>>

-----------------------------------------------------------------------------
(* Bounds *)

\* largest dimension n the constructor is called with
MaxN == 6

\* most documents in a corpus, and most tokens in a document
MaxDocs == 2

MaxDocLen == 3

\* the words documents are made of
Words == {"a", "b", "c"}

\* the window sizes and frequency thresholds the constructor is called with
WindowSizes == {2, 3}

Thresholds == {0, 2}

\* most minimize steps of one run of the optimizer
MaxSteps == 3

\* largest denominator of a row a step is taken from: a step from a row of
\* denominator q gives one of the order of q^3, and every number of the
\* step and of its check has to stay a machine integer
MaxDen == 13

\* the sides of the embedding matrices, the row ids of the embedding table
\* and the batch sizes the optimizer is run with
Dims == {2, 3}

Rows == {0, 1}

BatchLens == {1, 2}

\* the learning rates num/den the optimizer is constructed with
Rates == {[num |-> 1, den |-> 1], [num |-> 2, den |-> 1]}

\* most training steps of one run of make_embeddings
MaxTrain == 6

\* the numbers of constraints len(self.p) make_embeddings is run with
PairCounts == {1, 2, 33, 64}

\* the values sess.run(loss_eval) returns, in thousandths
LossValues == {100, 300, 600}

-----------------------------------------------------------------------------
(* Sums *)

RECURSIVE SumFn(_, _, _)
\* f[lo] + ... + f[hi]
SumFn(f, lo, hi) == IF lo > hi THEN 0 ELSE f[lo] + SumFn(f, lo + 1, hi)

-----------------------------------------------------------------------------
(* liegr.__init__ : index arithmetic (lines 62-64, 76-82)                  *)

\* (-1.)**k for an integer k
PowMinusOne(k) == IF k % 2 = 0 THEN 1 ELSE -1

\* 4 * ((n-0.5)**2 - 2*(I+1)), the radicand of line 62 scaled to an integer
Radicand4NoPlusOne(d, idx) == (2 * d - 1) * (2 * d - 1) - 8 * idx

Radicand4(d, idx) == (2 * d - 1) * (2 * d - 1) - 8 * (idx + 1)

\* c >= -0.5 + n - sqrt((n-0.5)**2 - 2*(I+1)), decided in integers:
\* 2c >= 2n - 1 - sqrt(Radicand4)
AtLeastRoot(d, idx, c) ==
    \/ 2 * d - 1 - 2 * c <= 0
    \/ (2 * d - 1 - 2 * c) * (2 * d - 1 - 2 * c) <= Radicand4(d, idx)

\* math.ceil(-0.5+n-np.sqrt((n-0.5)**2 - 2*(I+1)))
CeilRoot(d, idx) ==
    CHOOSE c \in 0..d : /\ AtLeastRoot(d, idx, c)
                        /\ \A c2 \in 0..d : AtLeastRoot(d, idx, c2) => c <= c2

\* i = int(math.ceil(...) - 1.)
RowOf(d, idx) == CeilRoot(d, idx) - 1

\* dist = (I+1.) - i*(2*n-i-1)/2 ; j = int(i+dist)
ColOf(d, idx) ==
    LET i == RowOf(d, idx)
    IN  i + ((idx + 1) - (i * (2 * d - i - 1)) \div 2)

\* the index pair (i, j) of generator I
PairOf(d, idx) == <<RowOf(d, idx), ColOf(d, idx)>>

\* self.N = int(n*(n-1)/2.)
AlgebraDim(d) == (d * (d - 1)) \div 2

\* np.zeros([n, n])
ZeroMatrix(d) == [r \in 0..(d - 1) |-> [c \in 0..(d - 1) |-> 0]]

\* the value written at line 65
GenSignAllPlus(i, j) == 1

GenSign(i, j) == PowMinusOne(i + j + 1)

\* lines 65-66 on one generator: T[I][i,j] = sign ; T[I][j,i] = -T[I][i,j]
SetGeneratorSymmetric(m, i, j) ==
    LET m1 == [m EXCEPT ![i][j] = GenSign(i, j)]
    IN  [m1 EXCEPT ![j][i] = m1[i][j]]

SetGenerator(m, i, j) ==
    LET m1 == [m EXCEPT ![i][j] = GenSign(i, j)]
    IN  [m1 EXCEPT ![j][i] = -m1[i][j]]

-----------------------------------------------------------------------------
(* liegr.__init__ : the structure constants (lines 73-101)                 *)

\* x - y + int(y*(n - 0.5*(y+1))) - 1, before the reduction modulo N
KRawOffByOne(d, x, y) == x - y + (y * (2 * d - y - 1)) \div 2

KRaw(d, x, y) == x - y + (y * (2 * d - y - 1)) \div 2 - 1

\* the four tests of lines 85, 89, 93, 97 on the index pairs of I and J
CaseTest(c, iI, jI, iJ, jJ) ==
    CASE c = 1 -> iI = iJ
      [] c = 2 -> jI = jJ
      [] c = 3 -> jI = iJ
      [] c = 4 -> iI = jJ

\* the raw K of each case (lines 86, 90, 94, 98)
CaseKRaw(c, d, iI, jI, iJ, jJ) ==
    CASE c = 1 -> KRaw(d, jJ, jI)
      [] c = 2 -> KRaw(d, iJ, iI)
      [] c = 3 -> KRaw(d, jJ, iI)
      [] c = 4 -> KRaw(d, iJ, jI)

\* the value written to gamma[I,J,K] in each case
CaseSign(c) == IF c \in {1, 2} THEN 1 ELSE -1

\* gamma[I,J,K] = s ; gamma[J,I,K] = -s
WriteGammaSameSign(g, a, b, k, s) ==
    [g EXCEPT ![a][b][k] = s, ![b][a][k] = s]

WriteGamma(g, a, b, k, s) ==
    [g EXCEPT ![a][b][k] = s, ![b][a][k] = -s]

\* one of the four if-blocks applied to g
ApplyCase(g, c, d, NN, a, b) ==
    LET pI == PairOf(d, a)
        pJ == PairOf(d, b)
    IN  IF CaseTest(c, pI[1], pI[2], pJ[1], pJ[2])
        THEN WriteGamma(g, a, b,
                        CaseKRaw(c, d, pI[1], pI[2], pJ[1], pJ[2]) % NN,
                        CaseSign(c))
        ELSE g

\* the body of the inner loop, lines 76-100
GammaBody(g, d, NN, a, b) ==
    IF PairOf(d, a) = PairOf(d, b)
    THEN g
    ELSE ApplyCase(ApplyCase(ApplyCase(ApplyCase(g, 1, d, NN, a, b),
                                       2, d, NN, a, b),
                             3, d, NN, a, b),
                   4, d, NN, a, b)

-----------------------------------------------------------------------------
(* liegr.__init__ as a state machine                                       *)

\* entry of __init__ up to line 60: N and the zero array T
IdleCooccur ==
    /\ corpora = <<>>
    /\ window_size = 0
    /\ freq_threshold = 0
    /\ word_id = <<>>
    /\ windows = <<>>
    /\ widx = 0
    /\ occur = <<>>
    /\ cooccur = <<>>
    /\ index_pairs = <<>>
    /\ p = <<>>
    /\ cpc = "idle"

IdleOpt ==
    /\ dim = 0
    /\ lr = <<>>
    /\ table = <<>>
    /\ indices = <<>>
    /\ values = <<>>
    /\ mod = <<>>
    /\ var = <<>>
    /\ step = 0
    /\ opc = "idle"

IdleTrain ==
    /\ num_pairs = 0
    /\ tot_batches = 0
    /\ qhead = 0
    /\ version = 0
    /\ best_var = 0
    /\ loss_list = <<>>
    /\ new_loss = <<>>
    /\ old_loss = <<>>
    /\ best_loss = <<>>
    /\ consec_worse = 0
    /\ iterator = 0
    /\ grp_matrix = -1
    /\ measured = {}
    /\ trained = {}
    /\ tpc = "idle"

IdleBasis ==
    /\ n = 0
    /\ N = 0
    /\ T = <<>>
    /\ gamma = <<>>
    /\ I = 0
    /\ J = 0
    /\ pc = "idle"

InitBasis ==
    /\ IdleCooccur
    /\ IdleOpt
    /\ IdleTrain
    /\ n \in 0..MaxN
    /\ N = AlgebraDim(n)
    /\ T = [k \in 0..(N - 1) |-> ZeroMatrix(n)]
    /\ gamma = <<>>
    /\ I = 0
    /\ J = 0
    /\ pc = "gen"

\* one iteration of the loop of lines 61-66
GenStep ==
    /\ pc = "gen"
    /\ I < N
    /\ T' = [T EXCEPT ![I] = SetGenerator(@, RowOf(n, I), ColOf(n, I))]
    /\ I' = I + 1
    /\ UNCHANGED <<n, N, gamma, J, pc>>
    /\ UNCHANGED <<cooccurVars, optVars, trainVars>>

\* the loop of line 61 is exhausted: line 73 allocates gamma and the loops
\* of lines 74-75 start
GenDone ==
    /\ pc = "gen"
    /\ I >= N
    /\ gamma' = [a \in 0..(N - 1) |-> [b \in 0..(N - 1) |-> [k \in 0..(N - 1) |-> 0]]]
    /\ I' = 0
    /\ J' = 1
    /\ pc' = "gamma"
    /\ UNCHANGED <<n, N, T>>
    /\ UNCHANGED <<cooccurVars, optVars, trainVars>>

\* one iteration of the inner loop of lines 75-100, then the loop headers
GammaStep ==
    /\ pc = "gamma"
    /\ I < N
    /\ J < N
    /\ gamma' = GammaBody(gamma, n, N, I, J)
    /\ IF J + 1 < N
       THEN /\ J' = J + 1
            /\ I' = I
       ELSE /\ I' = I + 1
            /\ J' = I + 2
    /\ UNCHANGED <<n, N, T, pc>>
    /\ UNCHANGED <<cooccurVars, optVars, trainVars>>

\* both loops are exhausted (range(N)[I+1:] is empty for the last I)
GammaDone ==
    /\ pc = "gamma"
    /\ (I >= N \/ J >= N)
    /\ pc' = "done"
    /\ UNCHANGED <<n, N, T, gamma, I, J>>
    /\ UNCHANGED <<cooccurVars, optVars, trainVars>>

NextBasis ==
    \/ GenStep
    \/ GenDone
    \/ GammaStep
    \/ GammaDone

SpecBasis == InitBasis /\ [][NextBasis]_vars

-----------------------------------------------------------------------------
(* liegr.build_vocab (lines 117-135) and liegr.build_cooccur (143-185)     *)

\* the token sequences of length 0..MaxDocLen
Docs == UNION {[1..k -> Words] : k \in 0..MaxDocLen}

\* the corpora of 1..MaxDocs documents
Corpora == UNION {[1..k -> Docs] : k \in 1..MaxDocs}

\* set(self.to_tokens(doc))
WordsOf(doc) == {doc[k] : k \in 1..Len(doc)}

\* self.vocab_count[word] : the number of documents the word occurs in
VocabCount(cs, word) == Cardinality({k \in 1..Len(cs) : word \in WordsOf(cs[k])})

\* the keys of self.vocab : words seen at least freq_threshold times
Vocab(cs, th) == {word \in Words : VocabCount(cs, word) >= 1
                                   /\ VocabCount(cs, word) >= th}

\* the first document a word occurs in (the Counter keeps insertion order)
FirstDoc(cs, word) ==
    CHOOSE k \in 1..Len(cs) : /\ word \in WordsOf(cs[k])
                              /\ \A m \in 1..(k - 1) : word \notin WordsOf(cs[m])

\* the numberings enumerate() can give the vocabulary: words of an earlier
\* document come first, the order within one document's set is arbitrary
WordIds(cs, th) ==
    LET V == Vocab(cs, th)
    IN  {f \in [V -> 0..(Cardinality(V) - 1)] :
            /\ \A x \in V, y \in V : x # y => f[x] # f[y]
            /\ \A x \in V, y \in V :
                  FirstDoc(cs, x) < FirstDoc(cs, y) => f[x] < f[y]}

RECURSIVE Chunks(_, _)
\* chunks(l, n) : successive n-sized chunks of l
Chunks(l, sz) ==
    IF Len(l) = 0 THEN <<>>
    ELSE IF Len(l) <= sz THEN <<l>>
    ELSE <<SubSeq(l, 1, sz)>> \o Chunks(SubSeq(l, sz + 1, Len(l)), sz)

RECURSIVE AllWindows(_, _, _)
\* line 146 : the windows of every document from the k-th on, in order
AllWindows(cs, sz, k) ==
    IF k > Len(cs) THEN <<>>
    ELSE Chunks(cs[k], sz) \o AllWindows(cs, sz, k + 1)

\* line 156 : the ids of the window's tokens that are in the vocabulary
TokenIds(window, wid) ==
    LET keep == SelectSeq(window, LAMBDA word : word \in DOMAIN wid)
    IN  [k \in 1..Len(keep) |-> wid[keep[k]]]

\* the number of positions of ids that hold x (line 159)
CountOf(ids, x) == Cardinality({k \in 1..Len(ids) : ids[k] = x})

\* the number of pairs of positions a < b with ids[a] = x and ids[b] = y
\* (the inner loop of line 160)
PairsOf(ids, x, y) ==
    Cardinality({q \in (1..Len(ids)) \X (1..Len(ids)) :
                    q[1] < q[2] /\ ids[q[1]] = x /\ ids[q[2]] = y})

\* lines 158-159 over one window
OccurAfter(occ, ids) == [x \in DOMAIN occ |-> occ[x] + CountOf(ids, x)]

\* lines 160-162 over one window : both cooccur[word,coword] and
\* cooccur[coword,word] grow by one for every pair of positions
CooccurAfter(co, ids) ==
    [x \in DOMAIN co |-> [y \in DOMAIN co |->
        co[x][y] + PairsOf(ids, x, y) + PairsOf(ids, y, x)]]

RECURSIVE RowMajor(_, _, _)
\* lines 169-173 : the nonzero entries (i, j) of cooccur with j > i, in the
\* row-major order of np.nonzero; k runs over the flattened positions
RowMajor(co, sz, k) ==
    IF k >= sz * sz THEN <<>>
    ELSE LET i == k \div sz
             j == k % sz
         IN  (IF co[i][j] # 0 /\ j > i THEN <<(<<i, j>>)>> ELSE <<>>)
             \o RowMajor(co, sz, k + 1)

\* line 184 : (cooccur[i,j] / max([sqrt(occur[i]*occur[j]), epsilon])) ** 2
\* as the quotient num/den; max(...) is the square root whenever the integer
\* occur[i]*occur[j] is at least 1, and epsilon (eps = TRUE, the quotient
\* then being num/epsilon**2) when it is 0
Similarity(co, occ, i, j) ==
    [num |-> co[i][j] * co[i][j],
     den |-> IF occ[i] * occ[j] >= 1 THEN occ[i] * occ[j] ELSE 1,
     eps |-> occ[i] * occ[j] < 1]

InitCooccur ==
    /\ IdleBasis
    /\ IdleOpt
    /\ IdleTrain
    /\ corpora \in Corpora
    /\ window_size \in WindowSizes
    /\ freq_threshold \in Thresholds
    /\ word_id = <<>>
    /\ windows = <<>>
    /\ widx = 0
    /\ occur = <<>>
    /\ cooccur = <<>>
    /\ index_pairs = <<>>
    /\ p = <<>>
    /\ cpc = "vocab"

\* build_vocab, then lines 144-151 of build_cooccur
BuildVocab ==
    /\ cpc = "vocab"
    /\ word_id' \in WordIds(corpora, freq_threshold)
    /\ windows' = AllWindows(corpora, window_size, 1)
    /\ LET sz == Cardinality(Vocab(corpora, freq_threshold))
       IN  /\ occur' = [x \in 0..(sz - 1) |-> 0]
           /\ cooccur' = [x \in 0..(sz - 1) |-> [y \in 0..(sz - 1) |-> 0]]
    /\ widx' = 0
    /\ cpc' = "tabulate"
    /\ UNCHANGED <<corpora, window_size, freq_threshold, index_pairs, p>>
    /\ UNCHANGED <<basisVars, optVars, trainVars>>

\* one iteration of the loop of lines 154-162
TabulateWindow ==
    /\ cpc = "tabulate"
    /\ widx < Len(windows)
    /\ LET ids == TokenIds(windows[widx + 1], word_id)
       IN  /\ occur' = OccurAfter(occur, ids)
           /\ cooccur' = CooccurAfter(cooccur, ids)
    /\ widx' = widx + 1
    /\ UNCHANGED <<corpora, window_size, freq_threshold, word_id, windows,
                   index_pairs, p, cpc>>
    /\ UNCHANGED <<basisVars, optVars, trainVars>>

\* lines 165-185 : the index pairs and their target similarities
ComputeTargets ==
    /\ cpc = "tabulate"
    /\ widx >= Len(windows)
    /\ index_pairs' = RowMajor(cooccur, Cardinality(DOMAIN occur), 0)
    /\ p' = [k \in 1..Len(index_pairs') |->
                Similarity(cooccur, occur, index_pairs'[k][1], index_pairs'[k][2])]
    /\ cpc' = "done"
    /\ UNCHANGED <<corpora, window_size, freq_threshold, word_id, windows,
                   widx, occur, cooccur>>
    /\ UNCHANGED <<basisVars, optVars, trainVars>>

NextCooccur ==
    \/ BuildVocab
    \/ TabulateWindow
    \/ ComputeTargets

SpecCooccur == InitCooccur /\ [][NextCooccur]_vars

-----------------------------------------------------------------------------
(* Matrices: d x d arrays A[r][c] of integers; a real matrix is kept exactly  *)
(* as [num |-> A, den |-> q], q > 0, standing for A/q in lowest terms.        *)
(* An intermediate result x of a computation is named by                      *)
(* CHOOSE z \in {e(x) : x \in {...}} : TRUE, which is e(x) with x computed    *)
(* once.                                                                      *)

Idx(d) == 0..(d - 1)

\* tf.eye(d)
Eye(d) == [r \in Idx(d) |-> [c \in Idx(d) |-> IF r = c THEN 1 ELSE 0]]

\* tf.einsum('jk,jl->kl', A, B), one batch entry of 'ijk,ijl->ikl'
EinsumTN(A, B, d) ==
    [k \in Idx(d) |-> [l \in Idx(d) |->
        SumFn([j \in Idx(d) |-> A[j][k] * B[j][l]], 0, d - 1)]]

\* tf.matmul(A, B)
MatMul(A, B, d) ==
    [r \in Idx(d) |-> [c \in Idx(d) |->
        SumFn([m \in Idx(d) |-> A[r][m] * B[m][c]], 0, d - 1)]]

MatSub(A, B, d) == [r \in Idx(d) |-> [c \in Idx(d) |-> A[r][c] - B[r][c]]]

MatAdd(A, B, d) == [r \in Idx(d) |-> [c \in Idx(d) |-> A[r][c] + B[r][c]]]

Scale(k, A, d) == [r \in Idx(d) |-> [c \in Idx(d) |-> k * A[r][c]]]

\* seq without its k-th element
Drop(seq, k) == SubSeq(seq, 1, k - 1) \o SubSeq(seq, k + 1, Len(seq))

RECURSIVE DetOn(_, _, _)
\* the determinant of the rows and columns of A listed, by the first row
DetOn(A, rows, cols) ==
    IF Len(rows) = 0 THEN 1
    ELSE SumFn([k \in 1..Len(cols) |->
                    IF A[rows[1]][cols[k]] = 0 THEN 0
                    ELSE PowMinusOne(k + 1) * A[rows[1]][cols[k]]
                         * DetOn(A, Tail(rows), Drop(cols, k))],
               1, Len(cols))

IdxSeq(d) == [k \in 1..d |-> k - 1]

Det(A, d) == DetOn(A, IdxSeq(d), IdxSeq(d))

\* the adjugate: Adj(A).A = Det(A).I
Adj(A, d) ==
    [r \in Idx(d) |-> [c \in Idx(d) |->
        PowMinusOne(r + c) * DetOn(A, Drop(IdxSeq(d), c + 1), Drop(IdxSeq(d), r + 1))]]

Abs(x) == IF x < 0 THEN -x ELSE x

RECURSIVE Gcd(_, _)
Gcd(a, b) == IF b = 0 THEN a ELSE Gcd(b, a % b)

RECURSIVE EntryGcd(_, _, _, _)
\* the gcd of g and the entries of A from the k-th (row-major) on
EntryGcd(A, d, k, g) ==
    IF k >= d * d \/ g = 1 THEN g
    ELSE EntryGcd(A, d, k + 1, Gcd(g, Abs(A[k \div d][k % d])))

\* A/q in lowest terms with a positive denominator (q # 0)
Reduce(A, q, d) ==
    LET g == EntryGcd(A, d, 0, Abs(q))
        s == IF q < 0 THEN -g ELSE g
    IN  [num |-> [r \in Idx(d) |-> [c \in Idx(d) |-> A[r][c] \div s]],
         den |-> q \div s]

\* the product of two real matrices
RatMul(X, Y, d) ==
    CHOOSE z \in {Reduce(m, X.den * Y.den, d) : m \in {MatMul(X.num, Y.num, d)}} :
        TRUE

\* the inverse of the real matrix P/q : q.Adj(P)/Det(P)
Inverse(P, q, d) ==
    CHOOSE z \in {Reduce(a, dt, d) : a \in {Scale(q, Adj(P, d), d)},
                                     dt \in {Det(P, d)}} : TRUE

-----------------------------------------------------------------------------
(* OrthoOptimizer (lines 388-434)                                          *)

\* orthogonal matrices the table's rows start from (tf.qr gives orthogonal
\* rows, line 244): the identity and one dense rotation or reflection
StartMatrices(d) ==
    IF d = 2
    THEN {[num |-> Eye(2), den |-> 1],
          [num |-> (0 :> (0 :> 3 @@ 1 :> -4) @@ 1 :> (0 :> 4 @@ 1 :> 3)),
           den |-> 5]}
    ELSE {[num |-> Eye(3), den |-> 1],
          [num |-> (0 :> (0 :> 1 @@ 1 :> 2 @@ 2 :> 2)
                    @@ 1 :> (0 :> 2 @@ 1 :> 1 @@ 2 :> -2)
                    @@ 2 :> (0 :> 2 @@ 1 :> -2 @@ 2 :> 1)),
           den |-> 3]}

\* the raw gradients g.values are drawn from: one entry, an upper triangle
\* of ones, and a last row
Grads(d) ==
    {[r \in Idx(d) |-> [c \in Idx(d) |-> IF r = 0 /\ c = 1 THEN 1 ELSE 0]],
     [r \in Idx(d) |-> [c \in Idx(d) |-> IF r <= c THEN 1 ELSE 0]],
     [r \in Idx(d) |-> [c \in Idx(d) |-> IF r = d - 1 THEN c - 1 ELSE 0]]}

\* the ids of a batch
Range(seq) == {seq[k] : k \in 1..Len(seq)}

\* line 409 : var = tf.gather(v, g.indices)
Gather(v, idx) == [k \in 1..Len(idx) |-> v[idx[k]]]

\* lines 412-414 on one batch entry: mod = var^T.grad - grad^T.var
SkewPart1Only(vr, g, d) == [num |-> EinsumTN(vr.num, g, d), den |-> vr.den]

Skew(vr, g, d) ==
    CHOOSE z \in {[num |-> MatSub(part1, part2, d), den |-> vr.den] :
                     part1 \in {EinsumTN(vr.num, g, d)},
                     part2 \in {EinsumTN(g, vr.num, d)}} : TRUE

\* self._lr * grad / 2 is (rate.num * md.num) / HalfDen
HalfDen(md, rate) == 2 * rate.den * md.den

\* the numerator of I - self._lr * grad / 2 over HalfDen
Minus(md, rate, d) ==
    MatSub(Scale(HalfDen(md, rate), Eye(d), d), Scale(rate.num, md.num, d), d)

\* the numerator of I + self._lr * grad / 2 over HalfDen
Plus(md, rate, d) ==
    MatAdd(Scale(HalfDen(md, rate), Eye(d), d), Scale(rate.num, md.num, d), d)

\* line 423 : tf.matrix_inverse succeeds
Invertible(md, rate, d) ==
    \E pl \in {Plus(md, rate, d)} : Det(pl, d) # 0

\* lines 422-424 : mul = (I - lr*grad/2) . (I + lr*grad/2)^-1
Cayley(md, rate, d) ==
    CHOOSE z \in {RatMul(mul1, mul2, d) :
                     mul1 \in {[num |-> mi, den |-> HalfDen(md, rate)] :
                                   mi \in {Minus(md, rate, d)}},
                     mul2 \in {Inverse(pl, HalfDen(md, rate), d) :
                                   pl \in {Plus(md, rate, d)}}} : TRUE

\* line 425 on one batch entry: update = var . mul
Update(vr, md, rate, d) ==
    CHOOSE z \in {RatMul(vr, mul, d) : mul \in {Cayley(md, rate, d)}} : TRUE

\* line 427 : tf.scatter_update(v, indices, update); win[r] is the batch
\* entry whose update row r ends with (any of them when an id repeats)
ScatterUpdateAll(v, win, upd) ==
    [r \in DOMAIN v |-> IF r \in DOMAIN win THEN upd[win[r]] ELSE upd[1]]

ScatterUpdate(v, win, upd) ==
    [r \in DOMAIN v |-> IF r \in DOMAIN win THEN upd[win[r]] ELSE v[r]]

\* the optimizer is constructed (line 405) over an orthogonal table
InitOpt ==
    /\ IdleBasis
    /\ IdleCooccur
    /\ IdleTrain
    /\ dim \in Dims
    /\ lr \in Rates
    /\ table \in [Rows -> StartMatrices(dim)]
    /\ indices = <<>>
    /\ values = <<>>
    /\ mod = <<>>
    /\ var = <<>>
    /\ step = 0
    /\ opc = "get"

\* get_grads on the gradient (idx, vals) of a batch
GetGrads ==
    /\ opc = "get"
    /\ step < MaxSteps
    /\ \E b \in BatchLens :
          \E idx \in [1..b -> Rows], vals \in [1..b -> Grads(dim)] :
              /\ \A k \in 1..b : table[idx[k]].den <= MaxDen
              /\ indices' = idx
              /\ values' = vals
              /\ var' = Gather(table, idx)
              /\ mod' = [k \in 1..b |-> Skew(table[idx[k]], vals[k], dim)]
    /\ opc' = "apply"
    /\ UNCHANGED <<dim, lr, table, step>>
    /\ UNCHANGED <<basisVars, cooccurVars, trainVars>>

\* apply_grads on get_grads' results
ApplyGrads ==
    /\ opc = "apply"
    /\ \A k \in 1..Len(indices) : Invertible(mod[k], lr, dim)
    /\ \E update \in {[k \in 1..Len(indices) |-> Update(var[k], mod[k], lr, dim)]} :
          \E win \in [Range(indices) -> 1..Len(indices)] :
              /\ \A r \in Range(indices) : indices[win[r]] = r
              /\ table' = ScatterUpdate(table, win, update)
    /\ values' = <<>>
    /\ mod' = <<>>
    /\ var' = <<>>
    /\ step' = step + 1
    /\ opc' = "get"
    /\ UNCHANGED <<dim, lr, indices>>
    /\ UNCHANGED <<basisVars, cooccurVars, trainVars>>

NextOpt ==
    \/ GetGrads
    \/ ApplyGrads

SpecOpt == InitOpt /\ [][NextOpt]_vars

-----------------------------------------------------------------------------
(* liegr.make_embeddings : the queue and the training loop (lines 269-363) *)
(* The embedding table is kept by the training step it results from, and   *)
(* the value of a loss evaluation is any of LossValues.                    *)

\* self.batch_size
batch_size == 32

\* the numerator of the threshold 0.008 of line 345, in thousandths
LossThreshold == 8

\* float('inf')
Inf == [inf |-> TRUE, val |-> 0]

Finite(x) == [inf |-> FALSE, val |-> x]

\* a < b on losses
LossLess(a, b) == ~a.inf /\ (b.inf \/ a.val < b.val)

\* int(math.ceil(len(self.p)/self.batch_size))
TotBatches(len) == (len + batch_size - 1) \div batch_size

\* tq.dequeue_many(self.batch_size) : the queue runner enqueues the
\* constraints in order again and again, so a batch is the next batch_size
\* constraints of the cyclic sequence
AfterDequeue(head, len) == (head + batch_size) % len

\* the constraints one tq.dequeue_many(self.batch_size) returns when the
\* queue serves the constraint head next
Batch(head, len) == {(head + k) % len : k \in 0..(batch_size - 1)}

\* sum(loss_list), standing for the average of lines 339 and 348, whose
\* denominator tot_batches * self.batch_size never changes
SumLoss(ll) == SumFn(ll, 1, Len(ll))

\* new_loss > 0.008
AboveThreshold(x, tot) ==
    x.inf \/ x.val > LossThreshold * tot * batch_size

\* new_loss/old_loss - 1. < 0. for losses that are not negative: the quotient
\* by inf is 0, that of inf by inf is nan
RatioBelowOne(a, b) ==
    IF b.inf THEN ~a.inf ELSE ~a.inf /\ b.val > 0 /\ a.val < b.val

\* lines 269 and 321-332
InitTrain ==
    /\ IdleBasis
    /\ IdleCooccur
    /\ IdleOpt
    /\ num_pairs \in PairCounts
    /\ tot_batches = TotBatches(num_pairs)
    /\ qhead = 0
    /\ version = 0
    /\ best_var = 0
    /\ loss_list = <<>>
    /\ new_loss = Inf
    /\ old_loss = Inf
    /\ best_loss = Inf
    /\ consec_worse = 0
    /\ iterator = 0
    /\ grp_matrix = -1
    /\ measured = {}
    /\ trained = {}
    /\ tpc = "initial"

\* one iteration of the loop of lines 333-335: sess.run(train), then
\* sess.run(loss_eval); each run dequeues a batch of its own
InitialStep ==
    /\ tpc = "initial"
    /\ Len(loss_list) < tot_batches
    /\ version < MaxTrain
    /\ version' = version + 1
    /\ \E l \in LossValues : loss_list' = Append(loss_list, l)
    /\ trained' = trained \cup Batch(qhead, num_pairs)
    /\ qhead' = AfterDequeue(AfterDequeue(qhead, num_pairs), num_pairs)
    /\ UNCHANGED <<num_pairs, tot_batches, best_var, new_loss, old_loss,
                   best_loss, consec_worse, iterator, grp_matrix, measured, tpc>>
    /\ UNCHANGED <<basisVars, cooccurVars, optVars>>

\* lines 337-344: sess.run(merged_summary) evaluates loss on one more batch;
\* the initial loss is computed
InitialDone ==
    /\ tpc = "initial"
    /\ Len(loss_list) >= tot_batches
    /\ qhead' = AfterDequeue(qhead, num_pairs)
    /\ new_loss' = Finite(SumLoss(loss_list))
    /\ measured' = measured \cup {[at |-> version, loss |-> SumLoss(loss_list)]}
    /\ iterator' = 0
    /\ tpc' = "continual"
    /\ UNCHANGED <<num_pairs, tot_batches, version, best_var, loss_list,
                   old_loss, best_loss, consec_worse, grp_matrix, trained>>
    /\ UNCHANGED <<basisVars, cooccurVars, optVars>>

\* one iteration of the loop of lines 345-358
ContinualStep ==
    /\ tpc = "continual"
    /\ AboveThreshold(new_loss, tot_batches)
    /\ version < MaxTrain
    /\ version' = version + 1
    /\ trained' = trained \cup Batch(qhead, num_pairs)
    /\ qhead' = AfterDequeue(AfterDequeue(qhead, num_pairs), num_pairs)
    /\ \E l \in LossValues :
          loss_list' = [loss_list EXCEPT ![iterator + 1] = l]
    /\ iterator' = (iterator + 1) % tot_batches
    /\ new_loss' = Finite(SumLoss(loss_list'))
    /\ measured' = measured \cup {[at |-> version', loss |-> SumLoss(loss_list')]}
    /\ IF LossLess(new_loss', best_loss)
       THEN /\ best_var' = version'
            /\ best_loss' = new_loss'
            /\ consec_worse' = IF RatioBelowOne(new_loss', old_loss) THEN 1 ELSE 0
       ELSE /\ UNCHANGED <<best_var, best_loss>>
            /\ consec_worse' = IF RatioBelowOne(new_loss', old_loss)
                               THEN consec_worse + 1 ELSE consec_worse
    /\ tpc' = IF consec_worse' > num_pairs THEN "restore" ELSE "continual"
    /\ UNCHANGED <<num_pairs, tot_batches, old_loss, grp_matrix>>
    /\ UNCHANGED <<basisVars, cooccurVars, optVars>>

\* the test of line 345 fails: the loop is left
ContinualDone ==
    /\ tpc = "continual"
    /\ ~AboveThreshold(new_loss, tot_batches)
    /\ tpc' = "restore"
    /\ UNCHANGED <<num_pairs, tot_batches, qhead, version, best_var, loss_list,
                   new_loss, old_loss, best_loss, consec_worse, iterator,
                   grp_matrix, measured, trained>>
    /\ UNCHANGED <<basisVars, cooccurVars, optVars>>

\* lines 361-363: best_var is assigned to the table, saved and read out
Restore ==
    /\ tpc = "restore"
    /\ version' = best_var
    /\ grp_matrix' = best_var
    /\ tpc' = "done"
    /\ UNCHANGED <<num_pairs, tot_batches, qhead, best_var, loss_list,
                   new_loss, old_loss, best_loss, consec_worse, iterator,
                   measured, trained>>
    /\ UNCHANGED <<basisVars, cooccurVars, optVars>>

NextTrain ==
    \/ InitialStep
    \/ InitialDone
    \/ ContinualStep
    \/ ContinualDone
    \/ Restore

SpecTrain == InitTrain /\ [][NextTrain]_vars

-----------------------------------------------------------------------------
(* Helpers of the properties: products and commutators                     *)

\* entry (r, c) of the product A.B of two d x d matrices
ProdEntry(A, B, d, r, c) ==
    SumFn([m \in 0..(d - 1) |-> A[r][m] * B[m][c]], 0, d - 1)

\* entry (r, c) of A.B - B.A
CommEntry(A, B, d, r, c) == ProdEntry(A, B, d, r, c) - ProdEntry(B, A, d, r, c)

\* entry (r, c) of sum_K gamma[a,b,K] . T_K
GammaComb(a, b, r, c) ==
    SumFn([k \in 0..(N - 1) |-> gamma[a][b][k] * T[k][r][c]], 0, N - 1)

Gens == 0..(N - 1)

\* the pairs 0 <= i < j < n
UpperPairs(d) == {u \in (0..d-1) \X (0..d-1) : u[1] < u[2]}

\* u precedes v in row-major order
LexLess(u, v) == u[1] < v[1] \/ (u[1] = v[1] /\ u[2] < v[2])

\* how many indices the pairs of generators a and b have in common
Shared(a, b) ==
    Cardinality({PairOf(n, a)[1], PairOf(n, a)[2]}
                \cap {PairOf(n, b)[1], PairOf(n, b)[2]})

\* the case tests that are true of the pairs of a and b
TrueCases(a, b) ==
    {c \in 1..4 : CaseTest(c, PairOf(n, a)[1], PairOf(n, a)[2],
                              PairOf(n, b)[1], PairOf(n, b)[2])}

NonZeroK(a, b) == {k \in Gens : gamma[a][b][k] # 0}

-----------------------------------------------------------------------------
(* Properties of liegr.__init__                                            *)

\* C2: once __init__ has built T and gamma, for all generator indices I, J
\* the commutator T_I.T_J - T_J.T_I equals sum_K gamma[I,J,K].T_K in every
\* entry (for every n up to MaxN, which covers n = 2..5).
C2_CommutatorIdentity ==
    pc = "done" =>
        \A a \in Gens, b \in Gens : \A r \in 0..(n - 1), c \in 0..(n - 1) :
            CommEntry(T[a], T[b], n, r, c) = GammaComb(a, b, r, c)

C2_Witness ==
    /\ pc = "done"
    /\ n = 5
    /\ \E a \in Gens, b \in Gens : \E r \in 0..(n - 1), c \in 0..(n - 1) :
          /\ CommEntry(T[a], T[b], n, r, c) # 0
          /\ GammaComb(a, b, r, c) # 0

\* C3: for n >= 2, N = n(n-1)/2 and the closed-form map I |-> (i, j) is a
\* bijection from 0..N-1 onto the pairs 0 <= i < j < n that preserves order
\* (I < J exactly when the pair of I precedes the pair of J row-major); the
\* N generators built from it are pairwise distinct.
C3_IndexBijection ==
    n >= 2 =>
        /\ 2 * N = n * (n - 1)
        /\ (n = 2 => N = 1)
        /\ \A a \in Gens : PairOf(n, a) \in UpperPairs(n)
        /\ {PairOf(n, a) : a \in Gens} = UpperPairs(n)
        /\ \A a \in Gens, b \in Gens :
              (a < b) <=> LexLess(PairOf(n, a), PairOf(n, b))
        /\ pc \in {"gamma", "done"} => Cardinality({T[a] : a \in Gens}) = N

C3_Witness ==
    /\ pc = "done"
    /\ n = 4
    /\ N = 6
    /\ PairOf(n, 3) = <<1, 2>>
    /\ T[3][1][2] # 0

\* C4 (as amended): the generator T[I] with index pair (i, j) has
\* (-1)^(i+j+1) at position (i, j), that is +1 when i+j is odd and -1 when
\* i+j is even, the negated value at (j, i), and 0 everywhere else.
C4_GeneratorEntries ==
    pc = "done" =>
        \A a \in Gens :
            LET i == PairOf(n, a)[1]
                j == PairOf(n, a)[2]
                s == IF (i + j) % 2 = 1 THEN 1 ELSE -1
            IN  /\ T[a][i][j] = s
                /\ T[a][j][i] = -s
                /\ \A r \in 0..(n - 1), c \in 0..(n - 1) :
                      <<r, c>> \notin {<<i, j>>, <<j, i>>} => T[a][r][c] = 0

C4_Witness ==
    /\ pc = "done"
    /\ n = 3
    /\ T[1][0][2] = -1
    /\ T[1][2][0] = 1
    /\ T[0][0][1] = 1

\* C4 as stated: T[I] has +1 at (i, j), -1 at (j, i) and 0 elsewhere.
C4_PlusOneAtIJ ==
    pc = "done" =>
        \A a \in Gens :
            LET i == PairOf(n, a)[1]
                j == PairOf(n, a)[2]
            IN  /\ T[a][i][j] = 1
                /\ T[a][j][i] = -1
                /\ \A r \in 0..(n - 1), c \in 0..(n - 1) :
                      <<r, c>> \notin {<<i, j>>, <<j, i>>} => T[a][r][c] = 0

\* C5: gamma is antisymmetric in its first two indices,
\* gamma[I,J,K] = -gamma[J,I,K], and gamma[I,I,K] = 0, at every point of its
\* construction and when it is complete.
C5_GammaAntisymmetric ==
    pc \in {"gamma", "done"} =>
        \A a \in Gens, b \in Gens, k \in Gens :
            /\ gamma[a][b][k] = -gamma[b][a][k]
            /\ gamma[a][a][k] = 0

C5_Witness ==
    /\ pc = "done"
    /\ n = 4
    /\ \E a \in Gens, b \in Gens, k \in Gens :
          gamma[a][b][k] = 1 /\ gamma[b][a][k] = -1

\* C6: for I # J at most one of the four case tests is true; when the pairs
\* of I and J share exactly one index, gamma[I,J,.] has exactly one nonzero
\* entry, it is +1 or -1, and the K computed by the case that ran (I < J) is
\* already inside 0..N-1 before the reduction modulo N; when they share no
\* index or both, gamma[I,J,.] is zero.
C6_CaseStructure ==
    pc = "done" =>
        \A a \in Gens, b \in Gens :
            a # b =>
                /\ Cardinality(TrueCases(a, b)) <= 1
                /\ Shared(a, b) = 1 =>
                      /\ Cardinality(NonZeroK(a, b)) = 1
                      /\ \A k \in NonZeroK(a, b) : gamma[a][b][k] \in {1, -1}
                      /\ a < b =>
                            /\ Cardinality(TrueCases(a, b)) = 1
                            /\ \A c \in TrueCases(a, b) :
                                  CaseKRaw(c, n, PairOf(n, a)[1], PairOf(n, a)[2],
                                           PairOf(n, b)[1], PairOf(n, b)[2])
                                      \in Gens
                /\ Shared(a, b) # 1 => NonZeroK(a, b) = {}

C6_Witness ==
    /\ pc = "done"
    /\ n = 4
    /\ \E a \in Gens, b \in Gens :
          a < b /\ Shared(a, b) = 1 /\ TrueCases(a, b) = {3} /\ NonZeroK(a, b) # {}
    /\ \E a \in Gens, b \in Gens : a # b /\ Shared(a, b) = 0
    /\ \E a \in Gens, b \in Gens : a < b /\ TrueCases(a, b) = {1}
    /\ \E a \in Gens, b \in Gens : a < b /\ TrueCases(a, b) = {2}

\* C8: constructing the basis with n < 2 fails with InvalidDimension, so the
\* construction of generators and structure constants never completes.
C8_InvalidDimensionRejected == n < 2 => pc # "done"

-----------------------------------------------------------------------------
(* Properties of liegr.build_cooccur                                       *)

\* a quotient of Similarity lies in [0, 1]
InUnitRange(q) ==
    IF q.eps THEN q.num = 0 ELSE 0 <= q.num /\ q.num <= q.den

\* C9: every target similarity p computed by build_cooccur for an index pair
\* (i, j), i < j, lies in [0, 1], that is cooccur[i,j]^2 <= occur[i].occur[j],
\* whatever the corpus (a word may occur several times in one window).
C9_TargetInUnitRange ==
    cpc = "done" =>
        \A k \in 1..Len(p) :
            /\ InUnitRange(p[k])
            /\ cooccur[index_pairs[k][1]][index_pairs[k][2]]
                   * cooccur[index_pairs[k][1]][index_pairs[k][2]]
               <= occur[index_pairs[k][1]] * occur[index_pairs[k][2]]

-----------------------------------------------------------------------------
(* Properties of OrthoOptimizer                                            *)

\* X^T.X = I for X = num/den
IsOrthogonal(X, d) ==
    /\ X.den > 0
    /\ EinsumTN(X.num, X.num, d) = Scale(X.den * X.den, Eye(d), d)

\* the new value of a row from its old value and its own gradient alone
RowUpdate(old, g, rate, d) ==
    CHOOSE z \in {Update(old, md, rate, d) : md \in {Skew(old, g, d)}} : TRUE

\* C1: every row of the embedding table satisfies V^T.V = I after any number
\* of minimize steps with any gradients, rates and batches (ids may repeat).
C1_OrthogonalityPreserved ==
    opc # "idle" => \A r \in DOMAIN table : IsOrthogonal(table[r], dim)

C1_Witness ==
    /\ opc = "get"
    /\ step >= 2
    /\ Len(indices) = 2
    /\ indices[1] = indices[2]
    /\ table[indices[1]].den > 5
    /\ IsOrthogonal(table[indices[1]], dim)

\* C7: a minimize step leaves every row whose id is not in the batch as it
\* was, and gives a row of the batch the Cayley update of its own old value
\* by one of its own gradients.
C7_SparseUpdateFrame ==
    [][opc = "apply" =>
          \A r \in Rows :
              /\ r \notin Range(indices) => table'[r] = table[r]
              /\ r \in Range(indices) =>
                    \E k \in 1..Len(indices) :
                        /\ indices[k] = r
                        /\ table'[r] = RowUpdate(table[r], values[k], lr, dim)]_vars

C7_Witness ==
    /\ opc = "get"
    /\ step = 1
    /\ Range(indices) = {1}
    /\ table[0] \in StartMatrices(dim)
    /\ table[1] \notin StartMatrices(dim)

-----------------------------------------------------------------------------
(* Properties of liegr.make_embeddings                                     *)

\* C10: when make_embeddings completes, the table restored, saved and
\* exposed as grp_matrix is the table as it stood right after the training
\* step at which the lowest average loss of the run was measured (the loss
\* of the initial pass included), and never the untrained initial table.
C10_BestKnownRetained ==
    tpc = "done" =>
        /\ \E m \in measured :
              /\ m.at = grp_matrix
              /\ \A m2 \in measured : m.loss <= m2.loss
        /\ grp_matrix # 0

\* C11: when the initial pass of tot_batches iterations of make_embeddings
\* has run, every constraint of self.p has been contained in the batch of
\* a training step (sess.run(train)) of that pass.
C11_InitialPassTrainsEachPair ==
    (tpc = "initial" /\ Len(loss_list) = tot_batches) =>
        trained = 0..(num_pairs - 1)

====
